---- MODULE Spec2Model ----
(***************************************************************************)
(* Model of the CAG (Chunked Augmented Generation) class of cag-js:        *)
(* construction and configuration validation, generate_sequential and      *)
(* generate_recursive, each modelled at the granularity of its awaits.     *)
(* Text is a sequence of one-character strings.  The text splitter and the *)
(* model session provider are external: the splitter returns any sequence  *)
(* of chunks, a session answers any response, and each of their calls may  *)
(* complete or fail.                                                       *)
(***************************************************************************)
EXTENDS Integers, Sequences, FiniteSets, TLC

VARIABLES status, ctorArg, config, prompt_template, _ai, sessions, call

vars == <<status, ctorArg, config, prompt_template, _ai, sessions, call>>

(***************************************************************************)
(* Bounds                                                                  *)
(***************************************************************************)
MaxChunks == 2
MaxIter == 2

(***************************************************************************)
(* Values                                                                  *)
(***************************************************************************)
\* an optional configuration field is <<>> when absent (undefined) and
\* <<n>> when it holds the number n
Undefined == <<>>
Some(n) == <<n>>
Num(v) == v[1]
\* this._ai = null
Null == 0
NoResult == <<"NoResult">>
NoConfig == [chunkSize |-> 0, chunkOverlap |-> 0,
             iteration_limit |-> Undefined,
             iteration_output_token_limit |-> Undefined]

\* the literals of the source, as texts
Marker == <<"{", "t", "e", "x", "t", "}">>
BR == <<"<", "b", "r", ">">>
SPACE_None == <<>>
SPACE == <<" ">>

Template == <<"S", ":">> \o Marker
ChunkTexts == { <<"x">>, <<"$", "&">> }
Inputs == { <<"x", "$", "&">>, <<>> }
Responses == { <<"a">>, <<"b", "c">> }

ChunkLists == UNION { [1..n -> ChunkTexts] : n \in 0..MaxChunks }

\* the configurations offered to the constructor
SizeValues == {-1, 0, 1, 2}
OverlapValues == {-1, 0, 1, 2}
LimitValues == {Undefined} \cup { Some(n) : n \in {-1, 0, 1, 2, 3, 100, 101} }
TokenLimitValues == {Undefined} \cup { Some(n) : n \in {-1, 0, 1, 2} }
ConfigCandidates == [chunkSize : SizeValues, chunkOverlap : OverlapValues,
                     iteration_limit : LimitValues,
                     iteration_output_token_limit : TokenLimitValues]

\* the configurations of the generators that run generation calls
GenConfigs == [chunkSize : {2}, chunkOverlap : {1},
               iteration_limit : {Undefined, Some(0), Some(2)},
               iteration_output_token_limit :
                 {Undefined, Some(0), Some(1), Some(4)}]

Calls == {1, 2}

(***************************************************************************)
(* Pure functions                                                          *)
(***************************************************************************)
\* JavaScript truthiness of an optional number: undefined and 0 are falsy
Truthy(v) == v # Undefined /\ Num(v) # 0

\* Array.prototype.join
RECURSIVE join(_, _)
join(arr, sep) ==
  IF Len(arr) = 0 THEN <<>>
  ELSE IF Len(arr) = 1 THEN arr[1]
  ELSE arr[1] \o sep \o join(Tail(arr), sep)

\* String.prototype.indexOf, 1-based, 0 when absent
IndexOf(s, pat) ==
  LET hits == { i \in 1..(Len(s) - Len(pat) + 1) :
                  SubSeq(s, i, i + Len(pat) - 1) = pat }
  IN IF hits = {} THEN 0 ELSE CHOOSE i \in hits : \A j \in hits : i <= j

\* the replacement patterns String.prototype.replace expands in a
\* replacement string when the pattern is a string (no capture groups)
RECURSIVE ExpandReplacement(_, _, _, _)
ExpandReplacement(repl, matched, before, after) ==
  IF Len(repl) = 0 THEN <<>>
  ELSE IF repl[1] = "$" /\ Len(repl) >= 2 /\ repl[2] \in {"$", "&", "`", "'"}
    THEN LET rest == ExpandReplacement(SubSeq(repl, 3, Len(repl)),
                                       matched, before, after)
         IN CASE repl[2] = "$" -> <<"$">> \o rest
              [] repl[2] = "&" -> matched \o rest
              [] repl[2] = "`" -> before \o rest
              [] repl[2] = "'" -> after \o rest
    ELSE <<repl[1]>> \o
         ExpandReplacement(Tail(repl), matched, before, after)

\* template.replace('{text}', text)
prepare_prompt(template, text) ==
  LET i == IndexOf(template, Marker)
      before == SubSeq(template, 1, i - 1)
      after == SubSeq(template, i + Len(Marker), Len(template))
  IN IF i = 0 THEN template
     ELSE before \o ExpandReplacement(text, Marker, before, after) \o after

(***************************************************************************)
(* Construction                                                            *)
(***************************************************************************)
\* new RecursiveCharacterTextSplitter({chunkSize, chunkOverlap}): the
\* splitter's constructor refuses chunkOverlap >= chunkSize
setupSplitter(cfg) ==
  IF cfg.chunkOverlap >= cfg.chunkSize
    THEN "Cannot have chunkOverlap >= chunkSize"
    ELSE "ok"

validateConfig_LimitOffByOne(cfg) ==
  IF cfg.chunkSize < 1 THEN "chunkSize must be greater than 0"
  ELSE IF cfg.chunkOverlap < 0
    THEN "chunkOverlap must be greater than or equal to 0"
  ELSE IF Truthy(cfg.iteration_limit) /\ Num(cfg.iteration_limit) <= 2
    THEN "iteration_limit must be greater than 1"
  ELSE IF Truthy(cfg.iteration_limit) /\ Num(cfg.iteration_limit) > 100
    THEN "iteration_limit must be less than or equal to 100"
  ELSE IF Truthy(cfg.iteration_output_token_limit)
          /\ Num(cfg.iteration_output_token_limit) < 1
    THEN "iteration_output_token_limit must be greater than 0"
  ELSE "ok"

validateConfig(cfg) ==
  IF cfg.chunkSize < 1 THEN "chunkSize must be greater than 0"
  ELSE IF cfg.chunkOverlap < 0
    THEN "chunkOverlap must be greater than or equal to 0"
  ELSE IF Truthy(cfg.iteration_limit) /\ Num(cfg.iteration_limit) < 2
    THEN "iteration_limit must be greater than 1"
  ELSE IF Truthy(cfg.iteration_limit) /\ Num(cfg.iteration_limit) > 100
    THEN "iteration_limit must be less than or equal to 100"
  ELSE IF Truthy(cfg.iteration_output_token_limit)
          /\ Num(cfg.iteration_output_token_limit) < 1
    THEN "iteration_output_token_limit must be greater than 0"
  ELSE "ok"

\* the outcome of new CAG(cfg, template): "ok" or the error thrown
ConstructorOutcome(cfg) ==
  IF setupSplitter(cfg) # "ok" THEN setupSplitter(cfg)
  ELSE validateConfig(cfg)

(***************************************************************************)
(* Generation: the frame of one top-level call                             *)
(***************************************************************************)
\* pc is the await the call is suspended at ("split", "create", "send",
\* "destroy" for lines 138 and 187, "finally" for line 192), or "idle",
\* "done", "failed".  longInput, iterationCount, chunks, output are the
\* locals of the frame that is running; idx is the position of the for-of
\* loop; pending is the session the awaited prompt or destroy was invoked
\* on.  The remaining fields record what the call has done so far.
IdleFrame ==
  [pc |-> "idle", mode |-> "none", longInput |-> <<>>, iterationCount |-> 0,
   chunks |-> <<>>, idx |-> 0, output |-> <<>>, pending |-> Null,
   result |-> NoResult, error |-> "none",
   startIter |-> 0, passes |-> 0, reentries |-> 0, joins |-> 0,
   lastCombined |-> <<>>, retVia |-> "none", log |-> <<>>, leaked |-> 0]

Terminal(f) == f.pc \in {"idle", "done", "failed"}

\* output.push(response)
push_Prepend(output, response) == <<response>> \o output

push(output, response) == Append(output, response)

\* lines 157-160: neither termination criterion is truthy
MissingCriterion_Never(cfg) == FALSE

MissingCriterion(cfg) ==
  ~Truthy(cfg.iteration_limit) /\ ~Truthy(cfg.iteration_output_token_limit)

\* lines 165-168
CapReached_Never(cfg, iterationCount) == FALSE

CapReached_Strict(cfg, iterationCount) ==
  Truthy(cfg.iteration_limit) /\ iterationCount > Num(cfg.iteration_limit)

CapReached(cfg, iterationCount) ==
  Truthy(cfg.iteration_limit) /\ iterationCount >= Num(cfg.iteration_limit)

\* lines 205-208
Converged_Strict(cfg, combinedOutput) ==
  Truthy(cfg.iteration_output_token_limit)
  /\ Len(combinedOutput) < Num(cfg.iteration_output_token_limit)

Converged_Flipped(cfg, combinedOutput) ==
  Truthy(cfg.iteration_output_token_limit)
  /\ Len(combinedOutput) >= Num(cfg.iteration_output_token_limit)

Converged(cfg, combinedOutput) ==
  Truthy(cfg.iteration_output_token_limit)
  /\ Len(combinedOutput) <= Num(cfg.iteration_output_token_limit)

\* line 214: the iteration argument of the recursive call
NextIteration(iterationCount) == iterationCount + 1

\* lines 181-190: the chunk loop of generate_recursive catches what the
\* body of the loop throws; the loop of generate_sequential has no try
CatchesChunkError_Never(mode) == FALSE

CatchesChunkError_Always(mode) == TRUE

CatchesChunkError(mode) == mode = "rec"

\* line 191: if (this._ai)
FinallyReleases_Never(ai) == FALSE

FinallyReleases(ai) == ai # Null

\* the synchronous start of generate_recursive(longInput, iterationCount),
\* up to its first await (lines 157-173), in frame f
EnterRecursive(f, cfg, longInput, iterationCount) ==
  LET g == [f EXCEPT !.longInput = longInput,
                     !.iterationCount = iterationCount]
  IN IF MissingCriterion(cfg)
       THEN [g EXCEPT !.pc = "failed", !.error = "missing_criterion"]
     ELSE IF CapReached(cfg, iterationCount)
       THEN [g EXCEPT !.pc = "done", !.result = longInput, !.retVia = "cap"]
     ELSE [g EXCEPT !.pc = "split", !.passes = @ + 1]

\* the head of the for-of loop and what follows the loop: the next chunk's
\* initialize() (lines 132, 182), or the join and return of
\* generate_sequential (line 141), or the join, the convergence check and
\* the recursive call of generate_recursive (lines 198-214)
LoopNext(f, cfg) ==
  IF f.idx < Len(f.chunks)
    THEN [f EXCEPT !.idx = @ + 1, !.pc = "create", !.pending = Null]
  ELSE IF f.mode = "seq"
    THEN [f EXCEPT !.pc = "done", !.result = join(f.output, BR),
                   !.retVia = "join", !.pending = Null]
  ELSE LET combinedOutput == join(f.output, SPACE)
           g == [f EXCEPT !.lastCombined = combinedOutput, !.joins = @ + 1,
                          !.pending = Null]
       IN IF Converged(cfg, combinedOutput)
            THEN [g EXCEPT !.pc = "done", !.result = combinedOutput,
                           !.retVia = "converged"]
            ELSE EnterRecursive([g EXCEPT !.reentries = @ + 1], cfg,
                                combinedOutput,
                                NextIteration(f.iterationCount))

\* lines 131, 180: the chunk the for-of loop is at
CurrentChunk_First(f) == f.chunks[1]

CurrentChunk(f) == f.chunks[f.idx]

LogEntry(f, kind, sid, text) ==
  [idx |-> f.idx, kind |-> kind, sid |-> sid, text |-> text]

\* session.destroy() is invoked on session sid
Destroyed(s, sid) == [s EXCEPT ![sid].destroyed = @ + 1]

SetCall(c, f) ==
  /\ f.iterationCount <= MaxIter
  /\ call' = [call EXCEPT ![c] = f]

OthersIdle(c) == \A d \in Calls \ {c} : Terminal(call[d])

\* The session records are a ledger of what was done to each session.  The
\* records of the sessions of finished passes and of earlier calls are
\* dropped when a pass starts, except the one this._ai still refers to,
\* which is kept as session 1; a frame counts the sessions it dropped that
\* were never released.
Retained(s, ai) == IF ai # Null THEN <<s[ai]>> ELSE <<>>

Renamed(ai) == IF ai # Null THEN 1 ELSE Null

Unreleased(s, ai, c) ==
  Cardinality({ i \in DOMAIN s : /\ i # ai
                                  /\ s[i].owner = c
                                  /\ ~s[i].stale
                                  /\ s[i].destroyed = 0 })

\* A top-level call starts: the session this._ai still refers to belongs to
\* an earlier call and is marked stale; its record keeps whether an earlier
\* call released it and counts the releases of the call that starts.
StartCall(c, f) ==
  /\ status = "constructed"
  /\ Terminal(call[c])
  /\ IF OthersIdle(c)
       THEN /\ sessions' = IF _ai # Null
                             THEN <<[sessions[_ai] EXCEPT
                                      !.stale = TRUE, !.pass = 0, !.idx = 0,
                                      !.releasedEarlier =
                                         @ \/ sessions[_ai].destroyed > 0,
                                      !.destroyed = 0]>>
                             ELSE <<>>
            /\ _ai' = Renamed(_ai)
       ELSE UNCHANGED <<sessions, _ai>>
  /\ SetCall(c, f)
  /\ UNCHANGED <<status, ctorArg, config, prompt_template>>

\* the finally block of generate_recursive (lines 190-195), entered with
\* frame f
EnterFinally(c, f) ==
  IF FinallyReleases(_ai)
    THEN /\ sessions' = Destroyed(sessions, _ai)
         /\ SetCall(c, [f EXCEPT !.pc = "finally", !.pending = _ai])
    ELSE /\ sessions' = sessions
         /\ SetCall(c, LoopNext(f, config))

\* the body of the chunk loop throws in frame f
ChunkError(c, f, error) ==
  IF CatchesChunkError(f.mode)
    THEN EnterFinally(c, f)
    ELSE /\ SetCall(c, [f EXCEPT !.pc = "failed", !.error = error])
         /\ UNCHANGED sessions

(***************************************************************************)
(* Actions                                                                 *)
(***************************************************************************)
\* new CAG(cfg, Template)
Constructor(cfg) ==
  /\ status = "new"
  /\ ctorArg' = cfg
  /\ IF ConstructorOutcome(cfg) = "ok"
       THEN /\ status' = "constructed"
            /\ config' = cfg
            /\ prompt_template' = Template
       ELSE /\ status' = "config_error"
            /\ UNCHANGED <<config, prompt_template>>
  /\ UNCHANGED <<_ai, sessions, call>>

\* generate_sequential(longInput) up to the await of splitText (line 127)
GenerateSequential_ChecksCriterion(c, longInput) ==
  StartCall(c, IF MissingCriterion(config)
                 THEN [IdleFrame EXCEPT !.pc = "failed", !.mode = "seq",
                                        !.longInput = longInput,
                                        !.error = "missing_criterion"]
                 ELSE [IdleFrame EXCEPT !.pc = "split", !.mode = "seq",
                                        !.longInput = longInput,
                                        !.passes = 1])

GenerateSequential(c, longInput) ==
  StartCall(c, [IdleFrame EXCEPT !.pc = "split", !.mode = "seq",
                                 !.longInput = longInput, !.passes = 1])

\* generate_recursive(longInput, iterationCount) up to its first await
GenerateRecursive(c, longInput, iterationCount) ==
  StartCall(c, EnterRecursive([IdleFrame EXCEPT !.mode = "rec",
                                                !.startIter = iterationCount],
                              config, longInput, iterationCount))

\* splitText resolves with chunks (lines 127, 173)
SplitReturn(c, chunks) ==
  /\ call[c].pc = "split"
  /\ LET f == [call[c] EXCEPT !.chunks = chunks, !.idx = 0,
                              !.output = <<>>, !.log = <<>>]
     IN IF OthersIdle(c)
          THEN /\ sessions' = Retained(sessions, _ai)
               /\ _ai' = Renamed(_ai)
               /\ SetCall(c, LoopNext([f EXCEPT !.leaked =
                                @ + Unreleased(sessions, _ai, c)], config))
          ELSE /\ SetCall(c, LoopNext(f, config))
               /\ UNCHANGED <<sessions, _ai>>
  /\ UNCHANGED <<status, ctorArg, config, prompt_template>>

\* splitText rejects
SplitFail(c) ==
  /\ call[c].pc = "split"
  /\ SetCall(c, [call[c] EXCEPT !.pc = "failed", !.error = "split"])
  /\ UNCHANGED <<status, ctorArg, config, prompt_template, _ai, sessions>>

\* initialize() resolves with a new session: this._ai is assigned, the
\* prompt is prepared and sent to this._ai (lines 132-135, 182-184)
CreateReturn(c) ==
  /\ call[c].pc = "create"
  /\ LET f == call[c]
         sid == Len(sessions) + 1
         chunk == CurrentChunk(f)
     IN /\ _ai' = sid
        /\ sessions' = Append(sessions,
             [owner |-> c, stale |-> FALSE, pass |-> f.passes,
              idx |-> f.idx, chunk |-> chunk,
              prompts |-> <<prepare_prompt(prompt_template, chunk)>>,
              destroyed |-> 0, releasedEarlier |-> FALSE])
        /\ SetCall(c, [f EXCEPT !.pc = "send", !.pending = sid])
  /\ UNCHANGED <<status, ctorArg, config, prompt_template>>

\* initialize() rejects
CreateFail(c) ==
  /\ call[c].pc = "create"
  /\ ChunkError(c, [call[c] EXCEPT
                      !.log = Append(@, LogEntry(call[c], "create_failed",
                                                 Null, <<>>))],
                "create")
  /\ UNCHANGED <<status, ctorArg, config, prompt_template, _ai>>

\* prompt resolves with response: it is pushed and this._ai.destroy() is
\* invoked (lines 135-138, 184-187)
PromptReturn(c, response) ==
  /\ call[c].pc = "send"
  /\ LET f == [call[c] EXCEPT
                 !.output = push(@, response),
                 !.log = Append(@, LogEntry(call[c], "ok", call[c].pending,
                                            response))]
     IN IF _ai = Null
          THEN ChunkError(c, f, "type_error")
          ELSE /\ sessions' = Destroyed(sessions, _ai)
               /\ SetCall(c, [f EXCEPT !.pc = "destroy", !.pending = _ai])
  /\ UNCHANGED <<status, ctorArg, config, prompt_template, _ai>>

\* prompt rejects
PromptFail(c) ==
  /\ call[c].pc = "send"
  /\ ChunkError(c, [call[c] EXCEPT
                      !.log = Append(@, LogEntry(call[c], "send_failed",
                                                 call[c].pending, <<>>))],
                "send")
  /\ UNCHANGED <<status, ctorArg, config, prompt_template, _ai>>

\* the destroy of line 138 or 187 resolves
DestroyReturn(c) ==
  /\ call[c].pc = "destroy"
  /\ IF call[c].mode = "rec"
       THEN EnterFinally(c, call[c])
       ELSE /\ SetCall(c, LoopNext(call[c], config))
            /\ UNCHANGED sessions
  /\ UNCHANGED <<status, ctorArg, config, prompt_template, _ai>>

\* the destroy of line 138 or 187 rejects
DestroyFail(c) ==
  /\ call[c].pc = "destroy"
  /\ ChunkError(c, call[c], "release")
  /\ UNCHANGED <<status, ctorArg, config, prompt_template, _ai>>

\* the destroy of the finally block resolves: this._ai = null (line 193)
FinallyReturn(c) ==
  /\ call[c].pc = "finally"
  /\ _ai' = Null
  /\ SetCall(c, LoopNext(call[c], config))
  /\ UNCHANGED <<status, ctorArg, config, prompt_template, sessions>>

\* the destroy of the finally block rejects: the rejection leaves the call
FinallyFail(c) ==
  /\ call[c].pc = "finally"
  /\ SetCall(c, [call[c] EXCEPT !.pc = "failed", !.error = "release"])
  /\ UNCHANGED <<status, ctorArg, config, prompt_template, _ai, sessions>>

(***************************************************************************)
(* Specifications                                                          *)
(***************************************************************************)
NoCalls == [c \in Calls |-> IdleFrame]

\* construction alone
InitConfig ==
  /\ status = "new"
  /\ ctorArg = NoConfig
  /\ config = NoConfig
  /\ prompt_template = <<>>
  /\ _ai = Null
  /\ sessions = <<>>
  /\ call = NoCalls

NextConfig == \E cfg \in ConfigCandidates : Constructor(cfg)

SpecConfig == InitConfig /\ [][NextConfig]_vars

\* a constructed generator on which top-level calls follow one another
Init ==
  /\ status = "constructed"
  /\ ctorArg \in { cfg \in GenConfigs : ConstructorOutcome(cfg) = "ok" }
  /\ config = ctorArg
  /\ prompt_template = Template
  /\ _ai = Null
  /\ sessions = <<>>
  /\ call = NoCalls

StartIters == 0..MaxIter

\* the awaited call of c resolves
Resolve(c) ==
  \/ \E chunks \in ChunkLists : SplitReturn(c, chunks)
  \/ CreateReturn(c)
  \/ \E response \in Responses : PromptReturn(c, response)
  \/ DestroyReturn(c)
  \/ FinallyReturn(c)

\* the awaited call of c rejects
Reject(c) ==
  \/ SplitFail(c)
  \/ CreateFail(c)
  \/ PromptFail(c)
  \/ DestroyFail(c)
  \/ FinallyFail(c)

Next ==
  \/ \E longInput \in Inputs : GenerateSequential(1, longInput)
  \/ \E longInput \in Inputs, iterationCount \in StartIters :
       GenerateRecursive(1, longInput, iterationCount)
  \/ Resolve(1)
  \/ Reject(1)

Spec == Init /\ [][Next]_vars

\* no call to the splitter or to a session stays pending for ever: it
\* resolves unless it rejects first
LiveSpec == Spec /\ WF_vars(Resolve(1))

\* Two top-level calls on one generator whose awaits interleave: each of
\* the two calls is made once, the second while the first has not left, and
\* whichever awaited call settles first goes on.
OverlapConfigs ==
  { cfg \in GenConfigs : /\ cfg.iteration_limit = Some(2)
                         /\ cfg.iteration_output_token_limit = Some(4) }

InitOverlap ==
  /\ status = "constructed"
  /\ ctorArg \in OverlapConfigs
  /\ config = ctorArg
  /\ prompt_template = Template
  /\ _ai = Null
  /\ sessions = <<>>
  /\ call = NoCalls

\* what the two overlapping calls are given and what the splitter returns
\* to them: at most one chunk, so that each call makes one pass
OverlapInputs == { <<"x", "$", "&">> }

OverlapChunkLists == { chunks \in ChunkLists : Len(chunks) <= 1 }

\* the awaited call of c resolves
ResolveOverlap(c) ==
  \/ \E chunks \in OverlapChunkLists : SplitReturn(c, chunks)
  \/ CreateReturn(c)
  \/ \E response \in Responses : PromptReturn(c, response)
  \/ DestroyReturn(c)
  \/ FinallyReturn(c)

\* no other call has left yet
NoneLeft(c) == \A d \in Calls \ {c} : call[d].pc \notin {"done", "failed"}

NextOverlap ==
  \E c \in Calls :
    \/ /\ call[c].pc = "idle" /\ NoneLeft(c)
       /\ \E longInput \in OverlapInputs : GenerateSequential(c, longInput)
    \/ /\ call[c].pc = "idle" /\ NoneLeft(c)
       /\ \E longInput \in OverlapInputs :
            GenerateRecursive(c, longInput, 0)
    \/ ResolveOverlap(c)
    \/ Reject(c)

SpecOverlap == InitOverlap /\ [][NextOverlap]_vars

(***************************************************************************)
(* Properties                                                              *)
(***************************************************************************)
\* the sessions call c created in the pass it is running (or ran last)
Own(c) == { i \in DOMAIN sessions : sessions[i].owner = c /\ ~sessions[i].stale }

\* the number of destroy() invocations the ledger holds
RECURSIVE Releases(_)
Releases(s) ==
  IF s = <<>> THEN 0 ELSE s[Len(s)].destroyed + Releases(SubSeq(s, 1, Len(s) - 1))

\* the texts, in order, with sep between neighbours
RECURSIVE Interleave(_, _)
Interleave(texts, sep) ==
  IF Len(texts) = 0 THEN <<>>
  ELSE IF Len(texts) = 1 THEN texts[1]
  ELSE Interleave(SubSeq(texts, 1, Len(texts) - 1), sep) \o sep
       \o texts[Len(texts)]

IsOk(e) == e.kind = "ok"
OkTexts(log) ==
  LET ok == SelectSeq(log, IsOk) IN [i \in 1..Len(ok) |-> ok[i].text]

Exited(f) == f.pc \in {"done", "failed"}

\* the field constraints of the configuration, as the specification states
\* them
InvalidAsSpecified(cfg) ==
  \/ cfg.chunkSize < 1
  \/ cfg.chunkOverlap < 0
  \/ /\ cfg.iteration_limit # Undefined
     /\ (Num(cfg.iteration_limit) < 2 \/ Num(cfg.iteration_limit) > 100)
  \/ /\ cfg.iteration_output_token_limit # Undefined
     /\ Num(cfg.iteration_output_token_limit) < 1

MeetsFieldConstraints(cfg) ==
  /\ cfg.chunkSize >= 1
  /\ cfg.chunkOverlap >= 0
  /\ cfg.chunkOverlap < cfg.chunkSize
  /\ \/ cfg.iteration_limit = Undefined
     \/ Num(cfg.iteration_limit) \in 2..100
  /\ \/ cfg.iteration_output_token_limit = Undefined
     \/ Num(cfg.iteration_output_token_limit) >= 1

\* C1: when a top-level call has returned or failed, every session it
\* created has been released (destroy() was invoked on it at least once).
C1_SessionsReleasedOnExit ==
  \A c \in Calls :
    Exited(call[c]) =>
      /\ call[c].leaked = 0
      /\ \A i \in Own(c) : sessions[i].destroyed >= 1

\* C2: a generate_sequential call that returned over N chunks created N
\* sessions, invoked N releases, and returned the N responses, response i
\* being that of the session created for chunk i, joined by "<br>".
C2_SequentialCreatesReleasesJoins ==
  \A c \in Calls :
    LET f == call[c] IN
    (f.mode = "seq" /\ f.pc = "done") =>
      /\ Len(f.log) = Len(f.chunks)
      /\ Cardinality(Own(c)) = Len(f.chunks)
      /\ Releases(sessions) = Len(f.chunks)
      /\ \A i \in DOMAIN f.log :
           /\ f.log[i].kind = "ok"
           /\ f.log[i].idx = i
           /\ sessions[f.log[i].sid].owner = c
           /\ sessions[f.log[i].sid].idx = i
           /\ sessions[f.log[i].sid].chunk = f.chunks[i]
      /\ f.result = Interleave(OkTexts(f.log), BR)

C2_Witness ==
  /\ call[1].mode = "seq"
  /\ call[1].pc = "done"
  /\ Len(call[1].chunks) = 2
  /\ call[1].result = <<"b", "c">> \o BR \o <<"a">>

\* C3: in generate_recursive a failed send never fails the call; the
\* session of the failed chunk is released exactly once; the loop goes on
\* to the next chunk; and the combined output of the pass is made of the
\* responses of the other chunks only.
C3_RecursiveSendFailureSkipsChunk ==
  \A c \in Calls :
    LET f == call[c] IN
    f.mode = "rec" =>
      /\ f.error # "send"
      /\ \A i \in DOMAIN f.log :
           /\ f.log[i].idx = i
           /\ f.log[i].kind = "send_failed" =>
                sessions[f.log[i].sid].destroyed = 1
      /\ f.pc = "create" => f.idx = Len(f.log) + 1
      /\ (f.joins >= 1 /\ f.pc \in {"done", "split"}) =>
           /\ Len(f.log) = Len(f.chunks)
           /\ f.lastCombined = Interleave(OkTexts(f.log), SPACE)

C3_Witness ==
  /\ call[1].mode = "rec"
  /\ call[1].pc = "done"
  /\ Len(call[1].log) = 2
  /\ call[1].log[1].kind = "send_failed"
  /\ call[1].log[2].kind = "ok"
  /\ call[1].result = call[1].log[2].text
  /\ sessions[call[1].log[1].sid].destroyed = 1

\* C4: in generate_sequential a chunk whose create or send failed is the
\* last chunk touched: the call has failed, returned nothing, and no
\* session exists for a later chunk.
C4_SequentialFailsFast ==
  \A c \in Calls :
    LET f == call[c] IN
    (f.mode = "seq" /\ \E i \in DOMAIN f.log : f.log[i].kind # "ok") =>
      /\ f.pc = "failed"
      /\ f.error \in {"create", "send"}
      /\ f.result = NoResult
      /\ f.idx = Len(f.log)
      /\ \A i \in DOMAIN f.log : f.log[i].kind # "ok" <=> i = Len(f.log)
      /\ \A i \in Own(c) : sessions[i].idx <= f.idx
      /\ Cardinality(Own(c)) =
           IF f.error = "create" THEN f.idx - 1 ELSE f.idx

C4_Witness ==
  /\ call[1].mode = "seq"
  /\ call[1].pc = "failed"
  /\ call[1].error = "send"
  /\ Len(call[1].chunks) = 2
  /\ call[1].idx = 1
  /\ Cardinality(Own(1)) = 1

\* C5: every configuration that violates a field constraint is refused by
\* the constructor.
C5_InvalidConfigurationRejected ==
  (status # "new" /\ InvalidAsSpecified(ctorArg)) => status = "config_error"

\* C6: every configuration that meets the field constraints is accepted
\* by the constructor and becomes the generator's configuration.
C6_ValidConfigurationAccepted ==
  (status # "new" /\ MeetsFieldConstraints(ctorArg)) =>
    /\ status = "constructed"
    /\ config = ctorArg

C6_Witness ==
  /\ status = "constructed"
  /\ config = [chunkSize |-> 1, chunkOverlap |-> 0,
               iteration_limit |-> Some(2),
               iteration_output_token_limit |-> Some(1)]

\* C7: with neither termination criterion configured, generate_recursive
\* fails with the missing-criterion error, whatever its iteration
\* argument, without having called the splitter or created a session.
C7_MissingCriterionFailsBeforeWork ==
  \A c \in Calls :
    LET f == call[c] IN
    (f.mode = "rec" /\ ~Truthy(config.iteration_limit)
                    /\ ~Truthy(config.iteration_output_token_limit)) =>
      /\ f.pc = "failed"
      /\ f.error = "missing_criterion"
      /\ f.passes = 0
      /\ Own(c) = {}
      /\ Releases(sessions) = 0

C7_Witness ==
  /\ call[1].mode = "rec"
  /\ call[1].pc = "failed"
  /\ call[1].error = "missing_criterion"
  /\ call[1].startIter = 2
  /\ config.iteration_limit = Undefined
  /\ config.iteration_output_token_limit = Undefined

\* C8: with iteration_limit set, a generate_recursive call that is running
\* eventually returns or fails, provided every call to the splitter and to
\* a session completes or fails.
C8_RecursiveTerminatesUnderLimit ==
  \A c \in Calls :
    (call[c].mode = "rec" /\ Truthy(config.iteration_limit))
      ~> Exited(call[c])

C8_Witness ==
  /\ call[1].mode = "rec"
  /\ call[1].pc = "done"
  /\ call[1].retVia = "cap"
  /\ call[1].startIter = 0
  /\ call[1].iterationCount = Num(config.iteration_limit)
  /\ config.iteration_output_token_limit = Undefined

\* C9 as stated: started at iteration 0 with iteration_limit = L, a
\* returned generate_recursive call made at most L passes, exactly L and
\* returning the combined output of pass L when it returned at the cap,
\* and its recursion depth equals the number of passes.
C9_DepthEqualsPasses ==
  \A c \in Calls :
    LET f == call[c] IN
    (f.mode = "rec" /\ f.startIter = 0 /\ Truthy(config.iteration_limit)
       /\ f.pc = "done") =>
      /\ f.passes <= Num(config.iteration_limit)
      /\ f.retVia = "cap" =>
           /\ f.passes = Num(config.iteration_limit)
           /\ f.joins = f.passes
           /\ f.result = f.lastCombined
      /\ f.reentries = f.passes

\* C9 as amended: started at iteration 0 with iteration_limit = L, the
\* call makes at most L passes; a call that returns without the length
\* threshold having been satisfied returns at the cap, after exactly L
\* passes and L recursive re-entries, the combined output of pass L; in
\* every other state the number of re-entries is one less than the number
\* of passes.
C9_PassesBoundedByLimit ==
  \A c \in Calls :
    LET f == call[c]
        L == Num(config.iteration_limit)
    IN
    (f.mode = "rec" /\ f.startIter = 0 /\ Truthy(config.iteration_limit)) =>
      /\ f.passes <= L
      /\ (f.pc = "done" /\ f.retVia # "converged") =>
           /\ f.retVia = "cap"
           /\ f.passes = L
           /\ f.joins = L
           /\ f.reentries = L
           /\ f.result = f.lastCombined
      /\ ~(f.pc = "done" /\ f.retVia = "cap") =>
           f.reentries = f.passes - 1

C9_Witness ==
  /\ call[1].mode = "rec"
  /\ call[1].pc = "done"
  /\ call[1].retVia = "cap"
  /\ call[1].startIter = 0
  /\ config.iteration_limit = Some(2)
  /\ call[1].passes = 2
  /\ call[1].reentries = 2
  /\ call[1].result = <<"a">> \o SPACE \o <<"b", "c">>

\* C10: with iteration_output_token_limit set, a pass whose combined output
\* is no longer than the limit ends the call: the call has returned that
\* combined output, no pass and no recursive call followed the pass.
C10_ConvergenceReturnsCombined ==
  \A c \in Calls :
    LET f == call[c] IN
    (f.mode = "rec" /\ f.joins >= 1
       /\ Truthy(config.iteration_output_token_limit)
       /\ Len(f.lastCombined) <= Num(config.iteration_output_token_limit)) =>
      /\ f.pc = "done"
      /\ f.retVia = "converged"
      /\ f.result = f.lastCombined
      /\ f.passes = f.joins
      /\ f.reentries = f.joins - 1

C10_Witness ==
  /\ call[1].mode = "rec"
  /\ call[1].pc = "done"
  /\ call[1].retVia = "converged"
  /\ call[1].passes = 1
  /\ call[1].reentries = 0
  /\ Len(call[1].chunks) >= 1
  /\ Len(call[1].result) = Num(config.iteration_output_token_limit)

\* C11: with only iteration_output_token_limit set, generate_recursive
\* returns only a combined output that is no longer than the limit; as
\* long as every pass yields a longer one the call is still running and
\* each pass has raised the iteration counter by one, and the next pass
\* can follow.
C11_OnlyConvergenceReturns ==
  \A c \in Calls :
    LET f == call[c] IN
    (f.mode = "rec" /\ ~Truthy(config.iteration_limit)
                    /\ Truthy(config.iteration_output_token_limit)) =>
      /\ f.pc = "done" =>
           /\ f.retVia = "converged"
           /\ f.result = f.lastCombined
           /\ Len(f.result) <= Num(config.iteration_output_token_limit)
      /\ f.pc # "done" =>
           /\ f.iterationCount = f.startIter + f.joins
           /\ f.passes = f.joins + 1
           /\ f.joins >= 1 =>
                Len(f.lastCombined) > Num(config.iteration_output_token_limit)
      /\ (~Exited(f) /\ f.iterationCount < MaxIter) => ENABLED Resolve(c)

C11_Witness ==
  /\ call[1].mode = "rec"
  /\ call[1].pc = "split"
  /\ config.iteration_limit = Undefined
  /\ config.iteration_output_token_limit # Undefined
  /\ call[1].startIter = 0
  /\ call[1].joins = MaxIter
  /\ call[1].iterationCount = MaxIter

\* C12: a call has at most one session that it created and has not yet
\* released; while the create of a chunk is pending every session of the
\* earlier chunks has been released; and the sessions follow the order of
\* the chunks.
C12_OneOpenSessionPerCall ==
  \A c \in Calls :
    LET f == call[c]
        open == { i \in Own(c) : sessions[i].destroyed = 0 }
    IN
    /\ f.leaked + Cardinality(open) <= 1
    /\ \A i \in open : i = Len(sessions) /\ sessions[i].idx = f.idx
    /\ f.pc = "create" =>
         /\ open = {}
         /\ \A i \in Own(c) : sessions[i].idx < f.idx
    /\ f.pc \in {"send", "destroy", "finally"} =>
         \A i \in Own(c) : i # f.pending => sessions[i].idx < f.idx
    /\ \A i, j \in Own(c) : i < j => sessions[i].idx < sessions[j].idx

C12_Witness ==
  /\ call[1].pc = "send"
  /\ call[1].idx = 2
  /\ Cardinality(Own(1)) = 2
  /\ sessions[call[1].pending].destroyed = 0
  /\ \E i \in Own(1) : sessions[i].idx = 1 /\ sessions[i].destroyed >= 1

\* C13: when no top-level call is in progress, this._ai does not refer to
\* a session that has been released.
C13_NoReleasedSessionHeld ==
  (\A c \in Calls : Terminal(call[c])) =>
    \/ _ai = Null
    \/ /\ sessions[_ai].destroyed = 0
       /\ ~sessions[_ai].releasedEarlier

\* C14: every session of a call was sent exactly one prompt, the one
\* prepared from the chunk at the position it was created for; no two
\* sessions of a pass belong to the same chunk; and a session whose prompt
\* is pending is the one just created and has not been released.
C14_OnePromptPerSessionInOrder ==
  \A c \in Calls :
    LET f == call[c] IN
    /\ \A i \in Own(c) :
         /\ sessions[i].idx \in 1..Len(f.chunks)
         /\ sessions[i].chunk = f.chunks[sessions[i].idx]
         /\ sessions[i].prompts =
              <<prepare_prompt(prompt_template, f.chunks[sessions[i].idx])>>
    /\ \A i, j \in Own(c) : sessions[i].idx = sessions[j].idx => i = j
    /\ f.pc = "send" =>
         /\ f.pending \in Own(c)
         /\ f.pending = _ai
         /\ sessions[f.pending].idx = f.idx
         /\ sessions[f.pending].destroyed = 0
    /\ \A i \in Own(c) :
         sessions[i].destroyed > 0 => ~(f.pc = "send" /\ f.pending = i)

C14_Witness ==
  /\ call[1].pc = "destroy"
  /\ call[1].idx = 2
  /\ call[1].chunks = << <<"x">>, <<"$", "&">> >>
  /\ Cardinality(Own(1)) = 2
  /\ sessions[call[1].pending].chunk = <<"$", "&">>
  /\ sessions[call[1].pending].destroyed = 1

\* C15: with iteration_limit set, generate_recursive called with an
\* iteration argument that has reached the limit returns its input as it
\* is, without a call to the splitter and without a session created, sent
\* to or released; a recursive call that has reached the limit returns
\* its input, the combined output, with no pass started after it.
C15_CapReturnsInputUntouched ==
  \A c \in Calls :
    LET f == call[c] IN
    (f.mode = "rec" /\ Truthy(config.iteration_limit)) =>
      /\ f.startIter >= Num(config.iteration_limit) =>
           /\ f.pc = "done"
           /\ f.retVia = "cap"
           /\ f.result = f.longInput
           /\ f.result \in Inputs
           /\ f.iterationCount = f.startIter
           /\ f.passes = 0
           /\ f.chunks = <<>>
           /\ Own(c) = {}
           /\ Releases(sessions) = 0
      /\ (f.pc = "done" /\ f.retVia = "cap") =>
           /\ f.iterationCount >= Num(config.iteration_limit)
           /\ f.result = f.longInput
           /\ f.passes = f.joins

C15_Witness ==
  /\ call[1].mode = "rec"
  /\ call[1].pc = "done"
  /\ config.iteration_limit = Some(2)
  /\ call[1].startIter = 2
  /\ call[1].result = <<"x", "$", "&">>
  /\ call[1].passes = 0

\* C16: the combined output of a pass of generate_recursive is made of
\* the responses of the chunks whose prompt was answered, in the order of
\* the chunks, with one space between neighbours; a chunk whose create or
\* send failed adds nothing, so the combined output is empty when there is
\* no chunk or no chunk was answered.
C16_CombinedIsAnsweredChunksInOrder ==
  \A c \in Calls :
    LET f == call[c]
        answered == SelectSeq(f.log, IsOk)
    IN
    (f.mode = "rec" /\ f.joins >= 1 /\ f.pc \in {"done", "split"}) =>
      /\ Len(f.log) = Len(f.chunks)
      /\ \A i \in DOMAIN f.log :
           /\ f.log[i].idx = i
           /\ f.log[i].kind \in {"ok", "create_failed", "send_failed"}
           /\ f.log[i].kind # "ok" => f.log[i].text = <<>>
           /\ f.log[i].kind = "ok" => f.log[i].text \in Responses
      /\ f.lastCombined =
           Interleave([i \in 1..Len(answered) |-> answered[i].text], <<" ">>)
      /\ answered = <<>> => f.lastCombined = <<>>
      /\ Len(answered) = 2 =>
           f.lastCombined = answered[1].text \o <<" ">> \o answered[2].text

C16_Witness ==
  /\ call[1].mode = "rec"
  /\ call[1].pc = "split"
  /\ call[1].joins = 1
  /\ Len(call[1].log) = 2
  /\ call[1].log[1].kind = "ok"
  /\ call[1].log[2].kind = "ok"
  /\ call[1].lastCombined = <<"b", "c", " ", "a">>

\* the template with the first marker replaced by the text as it is
Verbatim(template, text) ==
  LET i == IndexOf(template, Marker)
  IN IF i = 0 THEN template
     ELSE SubSeq(template, 1, i - 1) \o text
          \o SubSeq(template, i + Len(Marker), Len(template))

\* C17: the prompt sent to a session is the template with the marker
\* replaced by the text of the session's chunk, character for character.
C17_PromptIsChunkVerbatim ==
  \A i \in DOMAIN sessions :
    \A k \in DOMAIN sessions[i].prompts :
      sessions[i].prompts[k] = Verbatim(prompt_template, sessions[i].chunk)

\* C18: generate_sequential never fails with the missing-criterion error
\* and always calls the splitter, whatever the termination criteria; on a
\* generator with neither criterion it runs its chunks as on any other.
C18_SequentialNeedsNoCriterion ==
  \A c \in Calls :
    LET f == call[c] IN
    f.mode = "seq" =>
      /\ f.error # "missing_criterion"
      /\ f.passes = 1
      /\ f.pc = "failed" =>
           f.error \in {"split", "create", "send", "release"}
      /\ f.pc = "done" =>
           /\ f.retVia = "join"
           /\ Len(f.log) = Len(f.chunks)

C18_Witness ==
  /\ call[1].mode = "seq"
  /\ call[1].pc = "done"
  /\ config.iteration_limit = Undefined
  /\ config.iteration_output_token_limit = Undefined
  /\ Len(call[1].chunks) = 2
  /\ call[1].result = <<"a">> \o BR \o <<"b", "c">>

\* C19: the configuration of a constructed generator meets every field
\* constraint.
C19_ConstructedConfigurationIsValid ==
  status = "constructed" => MeetsFieldConstraints(config)

\* C20: generate_recursive invokes destroy() at most once on a session it
\* created, and exactly once when the call has returned or failed.
C20_RecursiveReleasesOnce ==
  \A c \in Calls :
    call[c].mode = "rec" =>
      \A i \in Own(c) :
        /\ sessions[i].destroyed <= 1
        /\ Exited(call[c]) => sessions[i].destroyed = 1

\* C22: a call of generate_recursive fails only with the missing-criterion
\* error or a splitter failure: no failure of session creation, of send or
\* of release for a chunk leaves the call.
C22_ChunkFailuresStayInLoop ==
  \A c \in Calls :
    (call[c].mode = "rec" /\ call[c].pc = "failed") =>
      call[c].error \in {"missing_criterion", "split"}

\* C23: with top-level calls following one another, no call invokes
\* destroy() on a session that an earlier call created.
C23_NoReleaseOfEarlierSession ==
  \A i \in DOMAIN sessions :
    sessions[i].stale => sessions[i].destroyed = 0

\* both calls have been made, the second while the first was running
Overlapped == \A c \in Calls : call[c].pc # "idle"

\* a call awaiting a destroy() awaits the destroy() of a session it created
ReleasedByCreator ==
  \A c \in Calls :
    call[c].pc \in {"destroy", "finally"} =>
      sessions[call[c].pending].owner = c

\* the session whose prompt a call awaits has not been released
NoReleaseDuringSend ==
  \A c \in Calls :
    call[c].pc = "send" => sessions[call[c].pending].destroyed = 0

\* once both calls have returned every session has been released
NoLeakOnReturn ==
  (\A c \in Calls : call[c].pc = "done") =>
    \A i \in DOMAIN sessions : sessions[i].destroyed >= 1

\* C21: when two top-level calls on one generator overlap, every session is
\* released by the call that created it, no session is released while its
\* prompt is still awaited, and every session has been released once both
\* calls have returned.
C21_OverlappingCallsKeepSessionsApart ==
  Overlapped =>
    /\ ReleasedByCreator
    /\ NoReleaseDuringSend
    /\ NoLeakOnReturn

====
